---- MODULE Spec2Model ----
(***************************************************************************)
(* Food recognition pipeline and entry ledger of health-panda-backend      *)
(* (src/app.py): predict_food with its lazily built Hugging Face           *)
(* classifier and file-name fallback, and the /api/food resource that      *)
(* records a FoodEntry per upload and lists a user's entries.              *)
(*                                                                         *)
(* Text is a sequence of one-character strings.  Calories are the table's  *)
(* whole numbers, a confidence is a percentage (0.5 is 50, 0.82 is 82),    *)
(* Python's None is the empty tuple and a present float x is <<x>>.        *)
(***************************************************************************)
EXTENDS Integers, Sequences, FiniteSets, TLC

VARIABLES
    HF_AVAILABLE,   \* module global set by the import at app.py:18-23
    hf_clf,         \* module global _hf_clf: Unset, or the handle built
    pc,             \* per worker thread: where its request handler stands
    user,           \* per thread: current_user_id of the request
    path,           \* per thread: save_path / image_path
    top,            \* per thread: preds[0] of predict_food
    result,         \* per thread: the dict predict_food returned
    entries,        \* table food_entry, in insertion order
    clock,          \* datetime.now(timezone.utc) as last read
    last_get,       \* the body of the GET /api/food response just sent
    how,            \* per thread: the branch that produced result (observation only)
    posts,          \* uploads accepted so far (bounds the run)
    ctor_ok,        \* calls of pipeline(...) that returned a handle (observation only)
    ctor_failed     \* TRUE once a call of pipeline(...) has raised (observation only)

vars == <<HF_AVAILABLE, hf_clf, pc, user, path, top, result, entries, clock,
          last_get, how, posts, ctor_ok, ctor_failed>>

(***************************************************************************)
(* Bounds of the model.                                                    *)
(***************************************************************************)
MaxPosts == 2

Threads == {1, 2}
Owners == {7, 9}

(***************************************************************************)
(* Text helpers.                                                           *)
(***************************************************************************)
UpperChars == <<"A","B","C","D","E","F","G","H","I","J","K","L","M",
                "N","O","P","Q","R","S","T","U","V","W","X","Y","Z">>
LowerChars == <<"a","b","c","d","e","f","g","h","i","j","k","l","m",
                "n","o","p","q","r","s","t","u","v","w","x","y","z">>
Digits == {"0","1","2","3","4","5","6","7","8","9"}

IsUpper(c) == \E i \in 1..26 : UpperChars[i] = c
IsLower(c) == \E i \in 1..26 : LowerChars[i] = c

LowerChar(c) ==
    IF IsUpper(c) THEN LowerChars[CHOOSE i \in 1..26 : UpperChars[i] = c]
    ELSE c

\* str.lower()
Lower(s) == [i \in 1..Len(s) |-> LowerChar(s[i])]

\* key in fname
Contains(s, k) ==
    \E i \in 1..(Len(s) - Len(k) + 1) : SubSeq(s, i, i + Len(k) - 1) = k

\* positions of character c in s
Positions(s, c) == {i \in 1..Len(s) : s[i] = c}

Min(S) == CHOOSE x \in S : \A y \in S : x <= y
Max(S) == CHOOSE x \in S : \A y \in S : x >= y

\* s.split(c)[0]
SplitFirst(s, c) ==
    IF Positions(s, c) = {} THEN s
    ELSE SubSeq(s, 1, Min(Positions(s, c)) - 1)

\* s.rsplit(c, 1)[1], for s that contains c
RSplitLast(s, c) == SubSeq(s, Max(Positions(s, c)) + 1, Len(s))

\* os.path.basename (posix): what follows the last "/"
Basename(p) ==
    IF Positions(p, "/") = {} THEN p
    ELSE SubSeq(p, Max(Positions(p, "/")) + 1, Len(p))

\* str.strip(chars)
RECURSIVE LStrip(_, _)
LStrip(s, chars) ==
    IF s # <<>> /\ Head(s) \in chars THEN LStrip(Tail(s), chars) ELSE s

RECURSIVE RStrip(_, _)
RStrip(s, chars) ==
    IF s # <<>> /\ s[Len(s)] \in chars
    THEN RStrip(SubSeq(s, 1, Len(s) - 1), chars)
    ELSE s

Strip(s, chars) == RStrip(LStrip(s, chars), chars)

Whitespace == {" "}

(***************************************************************************)
(* The calorie table of predict_food, in its definition order.             *)
(***************************************************************************)
None == <<>>
Some(x) == <<x>>

S_apple == <<"a","p","p","l","e">>
S_banana == <<"b","a","n","a","n","a">>
S_pizza == <<"p","i","z","z","a">>
S_sandwich == <<"s","a","n","d","w","i","c","h">>
S_salad == <<"s","a","l","a","d">>
S_burger == <<"b","u","r","g","e","r">>
S_rice == <<"r","i","c","e">>
S_egg == <<"e","g","g">>
S_unknown == <<"u","n","k","n","o","w","n">>

FOOD_CALORIES ==
    << [key |-> S_apple, cal |-> 95],
       [key |-> S_banana, cal |-> 105],
       [key |-> S_pizza, cal |-> 285],
       [key |-> S_sandwich, cal |-> 250],
       [key |-> S_salad, cal |-> 150],
       [key |-> S_burger, cal |-> 354],
       [key |-> S_rice, cal |-> 206],
       [key |-> S_egg, cal |-> 78] >>

\* FOOD_CALORIES.get(key)
Get(table, key) ==
    IF \E i \in 1..Len(table) : table[i].key = key
    THEN Some(table[CHOOSE i \in 1..Len(table) : table[i].key = key].cal)
    ELSE None

\* the for loop of _predict_by_filename from the i-th key on
RECURSIVE ScanKeys(_, _, _)
ScanKeys(fname, table, i) ==
    IF i > Len(table)
    THEN [food_name |-> S_unknown, calories |-> None, confidence |-> 0]
    ELSE IF Contains(fname, table[i].key)
         THEN [food_name |-> table[i].key,
               calories |-> Some(table[i].cal),
               confidence |-> 50]
         ELSE ScanKeys(fname, table, i + 1)

\* the same loop, matching the name as it was uploaded (no .lower())
predict_by_filename_CaseSensitive(image_path, table) ==
    ScanKeys(Basename(image_path), table, 1)

predict_by_filename(image_path, table) ==
    ScanKeys(Lower(Basename(image_path)), table, 1)

(***************************************************************************)
(* The upload boundary of Food.post.                                       *)
(***************************************************************************)
S_png == <<"p","n","g">>
S_jpg == <<"j","p","g">>
S_jpeg == <<"j","p","e","g">>
ALLOWED_EXTENSIONS == {S_png, S_jpg, S_jpeg}

allowed_file(filename) ==
    /\ Positions(filename, ".") # {}
    /\ Lower(RSplitLast(filename, ".")) \in ALLOWED_EXTENSIONS

\* "_".join(s.split()) for s with no leading or trailing blank
RECURSIVE JoinWords(_)
JoinWords(s) ==
    IF s = <<>> THEN <<>>
    ELSE IF Head(s) \in Whitespace
         THEN <<"_">> \o JoinWords(LStrip(s, Whitespace))
         ELSE <<Head(s)>> \o JoinWords(Tail(s))

FilenameChar(c) == IsUpper(c) \/ IsLower(c) \/ c \in Digits \/ c \in {"_", ".", "-"}

\* werkzeug.utils.secure_filename on ASCII text
secure_filename(filename) ==
    LET spaced == [i \in 1..Len(filename) |->
                      IF filename[i] = "/" THEN " " ELSE filename[i]]
        joined == JoinWords(Strip(spaced, Whitespace))
    IN  Strip(SelectSeq(joined, FilenameChar), {".", "_"})

UPLOAD_FOLDER == <<"/","e","g","g","/","u","p","l","o","a","d","s">>

\* save_path of Food.post for file.filename and uuid.uuid4().hex
SavePath(filename, hex) ==
    UPLOAD_FOLDER \o <<"/">> \o hex \o <<"_">> \o secure_filename(filename)

(***************************************************************************)
(* Requests and backend answers the runs draw from.                        *)
(***************************************************************************)
F_pizza_jpg == <<"p","i","z","z","a",".","j","p","g">>
F_rice_gif == <<"r","i","c","e",".","g","i","f">>
F_snack_jpg == <<"s","n","a","c","k",".","j","p","g">>
FileNames == {F_pizza_jpg, F_rice_gif, <<>>}

\* uuid.uuid4().hex: a hex string no earlier upload was given (its first
\* digit numbers the upload, its last digit is any)
HexChars == <<"0","1","2","3","4","5","6","7","8","9","a","b","c","d","e","f">>
Uuid4Hex(n, last) == <<HexChars[(n % 16) + 1], last>>

L_french_fries_chips ==
    <<"f","r","e","n","c","h","_","f","r","i","e","s",",",
      " ","c","h","i","p","s">>
Labels == {L_french_fries_chips}
Scores == {82}

\* what _hf_clf(image_path, top_k=3) does: raises, or returns preds whose
\* first item has (or lacks) a label and a score
Answer(kind, label, score) == [kind |-> kind, label |-> label, score |-> score]
NoAnswer == Answer("none", <<>>, 0)
Answers == {Answer("raise", <<>>, 0)} \cup [kind : {"ok"}, label : Labels, score : Scores]

Unset == 0
NoUser == 0
NoPath == <<>>
NoResponse == [user |-> NoUser, entries |-> <<>>]
NoResult == [food_name |-> <<>>, calories |-> None, confidence |-> -1]

(***************************************************************************)
(* The model-backed branch of predict_food, lines 166-172.                 *)
(***************************************************************************)
\* the key without .lower()
label_key_of_NoLower(label) == SplitFirst(label, ",")

\* label.split(",")[0].lower()
label_key_of(label) == Lower(SplitFirst(label, ","))

\* the calories looked up under the raw label instead of the key
ModelResult_RawLookup(first) ==
    [food_name |-> label_key_of(first.label),
     calories |-> Get(FOOD_CALORIES, first.label),
     confidence |-> IF first.kind = "noscore" THEN 0 ELSE first.score]

ModelResult(first) ==
    LET label_key == label_key_of(first.label)
        score == IF first.kind = "noscore" THEN 0 ELSE first.score
    IN  [food_name |-> label_key,
         calories |-> Get(FOOD_CALORIES, label_key),
         confidence |-> score]

(***************************************************************************)
(* State after the module is imported.                                     *)
(***************************************************************************)
Init ==
    /\ HF_AVAILABLE \in BOOLEAN
    /\ hf_clf = Unset
    /\ pc = [t \in Threads |-> "idle"]
    /\ user = [t \in Threads |-> NoUser]
    /\ path = [t \in Threads |-> NoPath]
    /\ top = [t \in Threads |-> NoAnswer]
    /\ result = [t \in Threads |-> NoResult]
    /\ how = [t \in Threads |-> "none"]
    /\ entries = <<>>
    /\ clock = 1
    /\ last_get = NoResponse
    /\ posts = 0
    /\ ctor_ok = 0
    /\ ctor_failed = FALSE

\* predict_food returns r to Food.post
Return(t, r, branch) ==
    /\ result' = [result EXCEPT ![t] = r]
    /\ how' = [how EXCEPT ![t] = branch]
    /\ pc' = [pc EXCEPT ![t] = "record"]

\* Food.post up to the read of _hf_clf in predict_food (lines 302-322, 146-150)
Post(t, o, filename, hex) ==
    /\ pc[t] = "idle"
    /\ posts < MaxPosts
    /\ filename # <<>>
    /\ allowed_file(filename)
    /\ posts' = posts + 1
    /\ user' = [user EXCEPT ![t] = o]
    /\ path' = [path EXCEPT ![t] = SavePath(filename, hex)]
    /\ IF ~HF_AVAILABLE
       THEN Return(t, predict_by_filename(path'[t], FOOD_CALORIES), "no_backend")
       ELSE /\ pc' = [pc EXCEPT ![t] =
                        IF hf_clf = Unset THEN "device" ELSE "infer"]
            /\ UNCHANGED <<result, how>>
    /\ last_get' = NoResponse
    /\ UNCHANGED <<HF_AVAILABLE, hf_clf, top, entries, clock, ctor_ok,
                   ctor_failed>>

\* line 151: torch.cuda.is_available() answers, or raises
DeviceSelect(t) ==
    /\ pc[t] = "device"
    /\ \/ pc' = [pc EXCEPT ![t] = "construct"]
       \/ pc' = [pc EXCEPT ![t] = "raised"]
    /\ last_get' = NoResponse
    /\ UNCHANGED <<HF_AVAILABLE, hf_clf, user, path, top, result, how,
                   entries, clock, posts, ctor_ok, ctor_failed>>

\* the exception leaves predict_food and Food.post: no entry is stored
Fail500(t) ==
    /\ pc[t] = "raised"
    /\ pc' = [pc EXCEPT ![t] = "idle"]
    /\ user' = [user EXCEPT ![t] = NoUser]
    /\ path' = [path EXCEPT ![t] = NoPath]
    /\ last_get' = NoResponse
    /\ UNCHANGED <<HF_AVAILABLE, hf_clf, top, result, how, entries, clock,
                   posts, ctor_ok, ctor_failed>>

\* lines 153-161: pipeline(...) returns a handle, or raises
Construct(t) ==
    /\ pc[t] = "construct"
    /\ \/ /\ hf_clf' = ctor_ok + 1
          /\ ctor_ok' = ctor_ok + 1
          /\ pc' = [pc EXCEPT ![t] = "infer"]
          /\ UNCHANGED <<result, how, ctor_failed>>
       \/ /\ hf_clf' = Unset
          /\ ctor_failed' = TRUE
          /\ Return(t, predict_by_filename(path[t], FOOD_CALORIES), "ctor_failed")
          /\ UNCHANGED ctor_ok
    /\ last_get' = NoResponse
    /\ UNCHANGED <<HF_AVAILABLE, user, path, top, entries, clock, posts>>

\* lines 163-174
\* an inference failure that also drops the cached handle
Infer_DropsHandle(t, answer) ==
    /\ pc[t] = "infer"
    /\ hf_clf # Unset
    /\ answer.kind = "raise"
    /\ hf_clf' = Unset
    /\ Return(t, predict_by_filename(path[t], FOOD_CALORIES), "infer_failed")
    /\ last_get' = NoResponse
    /\ UNCHANGED <<HF_AVAILABLE, user, path, top, entries, clock, posts,
                   ctor_ok, ctor_failed>>

Infer(t, answer) ==
    /\ pc[t] = "infer"
    /\ IF hf_clf = Unset
       THEN /\ Return(t, predict_by_filename(path[t], FOOD_CALORIES), "name_error")
            /\ UNCHANGED top
       ELSE IF answer.kind \in {"raise", "empty"}
            THEN /\ Return(t, predict_by_filename(path[t], FOOD_CALORIES),
                           "infer_failed")
                 /\ UNCHANGED top
            ELSE /\ top' = [top EXCEPT ![t] = answer]
                 /\ IF answer.kind = "nolabel"
                    THEN Return(t, predict_by_filename(path[t], FOOD_CALORIES),
                                "infer_failed")
                    ELSE Return(t, ModelResult(answer), "model")
    /\ last_get' = NoResponse
    /\ UNCHANGED <<HF_AVAILABLE, hf_clf, user, path, entries, clock, posts,
                   ctor_ok, ctor_failed>>

\* FoodEntry(...) with its defaults
\* an insert that reuses the first primary key
NewEntry_SameId(id, o, image_path, r, now) ==
    [entry_id |-> 1,
     user_id |-> o,
     image_path |-> image_path,
     food_name |-> r.food_name,
     calories |-> r.calories,
     confidence |-> r.confidence,
     created_on |-> now]

NewEntry(id, o, image_path, r, now) ==
    [entry_id |-> id,
     user_id |-> o,
     image_path |-> image_path,
     food_name |-> r.food_name,
     calories |-> r.calories,
     confidence |-> r.confidence,
     created_on |-> now]

\* lines 323-342: db.session.add(entry); db.session.commit().  The clock is
\* read at the insert: it shows the last reading again, or a later time.
Record(t, now) ==
    /\ pc[t] = "record"
    /\ now \in {clock, clock + 1}
    /\ entries' = Append(entries,
                         NewEntry(Len(entries) + 1, user[t], path[t], result[t], now))
    /\ clock' = now
    /\ pc' = [pc EXCEPT ![t] = "idle"]
    /\ user' = [user EXCEPT ![t] = NoUser]
    /\ path' = [path EXCEPT ![t] = NoPath]
    /\ top' = [top EXCEPT ![t] = NoAnswer]
    /\ result' = [result EXCEPT ![t] = NoResult]
    /\ how' = [how EXCEPT ![t] = "none"]
    /\ last_get' = NoResponse
    /\ UNCHANGED <<HF_AVAILABLE, hf_clf, posts, ctor_ok, ctor_failed>>

(***************************************************************************)
(* GET /api/food.                                                          *)
(***************************************************************************)
\* filter_by(user_id=o): the positions in the table of o's rows
\* the query without its filter_by
RowsOf_AllUsers(o) == DOMAIN entries

RowsOf(o) == {i \in 1..Len(entries) : entries[i].user_id = o}

\* order_by(created_on.desc()).all(): the rows in any order the ORDER BY
\* allows; SQL leaves the order of rows with equal keys to the engine
\* the query ordered by created_on ascending
Orderings_Ascending(rows) ==
    {q \in [1..Cardinality(rows) -> rows] :
        /\ \A i, j \in DOMAIN q : i # j => q[i] # q[j]
        /\ \A i, j \in DOMAIN q :
              i < j => entries[q[i]].created_on <= entries[q[j]].created_on}

Orderings(rows) ==
    {q \in [1..Cardinality(rows) -> rows] :
        /\ \A i, j \in DOMAIN q : i # j => q[i] # q[j]
        /\ \A i, j \in DOMAIN q :
              i < j => entries[q[i]].created_on >= entries[q[j]].created_on}

\* e.created_on.isoformat()
IsoFormat(time) == <<"T", time>>

\* the dict appended to out, lines 359-367
OutItem(e) ==
    [entry_id |-> e.entry_id,
     food_name |-> e.food_name,
     calories |-> e.calories,
     confidence |-> e.confidence,
     image_path |-> e.image_path,
     created_on |-> IsoFormat(e.created_on)]

Get_(t, o, q) ==
    /\ pc[t] = "idle"
    /\ q \in Orderings(RowsOf(o))
    /\ last_get' = [user |-> o,
                    entries |-> [i \in DOMAIN q |-> OutItem(entries[q[i]])]]
    /\ UNCHANGED <<HF_AVAILABLE, hf_clf, pc, user, path, top, result, how,
                   entries, clock, posts, ctor_ok, ctor_failed>>

Next ==
    \/ \E t \in Threads, o \in Owners, f \in FileNames :
          Post(t, o, f, Uuid4Hex(posts, "e"))
    \/ \E t \in Threads : DeviceSelect(t)
    \/ \E t \in Threads : Fail500(t)
    \/ \E t \in Threads : Construct(t)
    \/ \E t \in Threads, a \in Answers : Infer(t, a)
    \/ \E t \in Threads, now \in {clock, clock + 1} : Record(t, now)
    \/ \E t \in Threads, o \in Owners :
          \E q \in Orderings(RowsOf(o)) : Get_(t, o, q)

Spec == Init /\ [][Next]_vars

(***************************************************************************)
(* One thread inside predict_food, over a wide range of file names        *)
(* (SpecNames) or of backend answers (SpecLabels).                         *)
(***************************************************************************)
Stems ==
    { <<>>, S_egg, S_rice, S_pizza, S_banana,
      <<"E","g","g">>, <<"P","I","Z","Z","A">>,
      <<"e">>, <<"g","g">>, <<"s","p","l","i","t">>,
      <<"m","y","_">>, <<"/">>, <<"!">>, <<" ">> }
Extensions == { <<".","j","p","g">>, <<".","P","N","G">>, <<".","g","i","f">> }
AllFileNames == {a \o b \o x : a \in Stems, b \in Stems, x \in Extensions}

LabelHeads ==
    { <<>>, S_pizza, <<"P","i","z","z","a">>, <<" ","p","i","z","z","a">>,
      <<"p","i","z","z","a"," ">>, S_unknown, <<"U","N","K","N","O","W","N">>,
      <<"f","r","e","n","c","h","_","f","r","i","e","s">>, <<" ">> }
LabelTails ==
    { <<>>, <<",">>, <<","," ","c","h","i","p","s">>, <<",","e","g","g",",","x">> }
AllLabels == {h \o r : h \in LabelHeads, r \in LabelTails}
AllScores == {0, 50, 82, 100}
AllAnswers ==
    {Answer("raise", <<>>, 0), Answer("empty", <<>>, 0)}
        \cup [kind : {"nolabel"}, label : {<<>>}, score : AllScores]
        \cup [kind : {"noscore"}, label : AllLabels, score : {0}]
        \cup [kind : {"ok"}, label : AllLabels, score : AllScores]

NextNames ==
    \/ \E f \in AllFileNames, last \in {"e", "9"} :
          Post(1, 7, f, Uuid4Hex(posts, last))
    \/ DeviceSelect(1)
    \/ Fail500(1)
    \/ Construct(1)
    \/ \E a \in Answers : Infer(1, a)

SpecNames == Init /\ [][NextNames]_vars

NextLabels ==
    \/ \E f \in FileNames \cup {F_snack_jpg} :
          Post(1, 7, f, Uuid4Hex(posts, "e"))
    \/ DeviceSelect(1)
    \/ Fail500(1)
    \/ Construct(1)
    \/ \E a \in AllAnswers : Infer(1, a)

SpecLabels == Init /\ [][NextLabels]_vars

(***************************************************************************)
(* Properties.                                                             *)
(***************************************************************************)
HeuristicBranches == {"no_backend", "ctor_failed", "infer_failed", "name_error"}

\* C1: predict_food never raises and always returns a result whose
\* confidence lies in [0,1], whatever the backend does (not installed,
\* device selection or construction failing, inference failing or not).
C1_NeverRaises ==
    \A t \in Threads :
        /\ pc[t] # "raised"
        /\ pc[t] = "record" => result[t].confidence \in 0..100

\* C2: once pipeline(...) has failed, every upload that begins afterwards
\* goes straight to the file-name result and never heads for construction.
C2_DisabledForGood ==
    [][\A t \in Threads :
          (ctor_failed /\ pc[t] = "idle" /\ pc'[t] # "idle")
              => /\ pc'[t] = "record"
                 /\ result'[t] = predict_by_filename(path'[t], FOOD_CALORIES)]_vars

\* C3: an inference failure on a built handle gives that call the file-name
\* result and leaves the handle built and as it is; the handle changes in
\* no step but a construction step; and an upload that finds a handle goes
\* to inference on it without building another.
C3_InferenceFailureKeepsBackend ==
    [][/\ \A t \in Threads :
            (pc[t] = "infer" /\ hf_clf # Unset /\ how'[t] = "infer_failed")
                => /\ hf_clf' = hf_clf
                   /\ ctor_ok' = ctor_ok
                   /\ ctor_failed' = ctor_failed
                   /\ pc'[t] = "record"
                   /\ result'[t] = predict_by_filename(path[t], FOOD_CALORIES)
       /\ hf_clf' # hf_clf
            => \E t \in Threads : pc[t] = "construct" /\ pc'[t] # "construct"
       /\ \A t \in Threads :
            (hf_clf # Unset /\ pc[t] = "idle" /\ pc'[t] # "idle")
                => pc'[t] = "infer" /\ hf_clf' = hf_clf /\ ctor_ok' = ctor_ok]_vars

\* a second upload is at inference on the first handle after the first
\* upload's inference failed
C3_Witness ==
    \E t, u \in Threads :
        /\ how[t] = "infer_failed"
        /\ top[t] = NoAnswer
        /\ pc[u] = "infer"
        /\ hf_clf = 1
        /\ ctor_ok = 1
        /\ ~ctor_failed

\* the row of the table with primary key id
Stored(id) == entries[CHOOSE i \in DOMAIN entries : entries[i].entry_id = id]

\* C4: a listing for user o holds every entry stored for o, each once, and
\* no entry stored for another user (so it is empty when o has none).
C4_OwnerIsolation ==
    last_get.user \in Owners =>
        LET out == last_get.entries
        IN  /\ \A k \in DOMAIN out :
                 \E i \in DOMAIN entries :
                     /\ entries[i].entry_id = out[k].entry_id
                     /\ entries[i].user_id = last_get.user
            /\ \A i \in DOMAIN entries :
                 entries[i].user_id = last_get.user
                     => \E k \in DOMAIN out : out[k].entry_id = entries[i].entry_id
            /\ \A k, m \in DOMAIN out :
                 k # m => out[k].entry_id # out[m].entry_id

\* user 7 is shown its one entry while user 9 has one too
C4_Witness ==
    /\ last_get.user = 7
    /\ Len(last_get.entries) = 1
    /\ \E i \in DOMAIN entries : entries[i].user_id = 9

\* C5 as claimed: a listing is ordered by created_on descending, and
\* entries with equal created_on come in insertion order.
C5_DescendingStable ==
    last_get.user \in Owners =>
        LET out == last_get.entries
        IN  \A i, j \in DOMAIN out :
                i < j =>
                    \/ Stored(out[i].entry_id).created_on
                           > Stored(out[j].entry_id).created_on
                    \/ /\ Stored(out[i].entry_id).created_on
                              = Stored(out[j].entry_id).created_on
                       /\ out[i].entry_id < out[j].entry_id

\* C5 as amended: a listing is ordered by created_on descending; entries
\* with equal created_on come in either order.
C5_Descending ==
    last_get.user \in Owners =>
        LET out == last_get.entries
        IN  \A i, j \in DOMAIN out :
                i < j => Stored(out[i].entry_id).created_on
                             >= Stored(out[j].entry_id).created_on

\* a listing of two entries stored at different times
C5_Witness ==
    /\ last_get.user \in Owners
    /\ Len(last_get.entries) = 2
    /\ Stored(last_get.entries[1].entry_id).created_on
           > Stored(last_get.entries[2].entry_id).created_on

\* C6: the table only grows, by one row per recorded upload, the row
\* carries the upload's user, path and result under a key no row had, no
\* stored row ever changes, and a listing writes nothing.
C6_AppendOnly ==
    [][/\ Len(entries') \in {Len(entries), Len(entries) + 1}
       /\ \A i \in DOMAIN entries : entries'[i] = entries[i]
       /\ \A t \in Threads :
            (pc[t] = "record" /\ pc'[t] = "idle")
                => /\ Len(entries') = Len(entries) + 1
                   /\ LET e == entries'[Len(entries')]
                      IN  /\ e.user_id = user[t]
                          /\ e.image_path = path[t]
                          /\ e.food_name = result[t].food_name
                          /\ e.calories = result[t].calories
                          /\ e.confidence = result[t].confidence
                          /\ \A i \in DOMAIN entries :
                               entries[i].entry_id # e.entry_id
       /\ Len(entries') = Len(entries) + 1
            => \E t \in Threads : pc[t] = "record" /\ pc'[t] = "idle"
       /\ last_get' # NoResponse => entries' = entries]_vars

\* two uploads of different users are stored and a listing was just sent
C6_Witness ==
    /\ Len(entries) = 2
    /\ entries[1].user_id # entries[2].user_id
    /\ last_get.user \in Owners

\* the calorie table's keys in the order the table is written
TableOrder ==
    <<S_apple, S_banana, S_pizza, S_sandwich, S_salad, S_burger, S_rice, S_egg>>

KeysIn(name) == {i \in 1..Len(TableOrder) : Contains(name, TableOrder[i])}

ExpectedByName(image_path) ==
    LET name == Lower(Basename(image_path))
    IN  IF KeysIn(name) = {}
        THEN [food_name |-> S_unknown, calories |-> None, confidence |-> 0]
        ELSE LET k == TableOrder[Min(KeysIn(name))]
             IN  [food_name |-> k,
                  calories |-> Get(FOOD_CALORIES, k),
                  confidence |-> 50]

\* C7: the file-name result is the first key, in the table's order, that
\* occurs in the lower-cased file name, with the table's calories and
\* confidence 0.5; or ("unknown", None, 0.0) when no key occurs.
C7_HeuristicByTableOrder ==
    \A t \in Threads :
        how[t] \in HeuristicBranches => result[t] = ExpectedByName(path[t])

\* a name holding "egg" and "rice" is classified "rice", the earlier key
C7_Witness ==
    \E t \in Threads :
        /\ how[t] \in HeuristicBranches
        /\ Contains(Lower(Basename(path[t])), S_egg)
        /\ Contains(Lower(Basename(path[t])), S_rice)
        /\ result[t].food_name = S_rice
        /\ result[t].calories = Some(206)

\* C8 as claimed: in every result of predict_food the calories are the
\* table's value for food_name (None when it has none), and the confidence
\* is 0.0 whenever food_name is "unknown".
C8_ResultInvariant ==
    \A t \in Threads :
        pc[t] = "record" =>
            /\ result[t].calories = Get(FOOD_CALORIES, result[t].food_name)
            /\ result[t].food_name = S_unknown => result[t].confidence = 0

\* C8 as amended: the calories are the table's value for food_name on both
\* branches; the confidence is 0.0 whenever the file-name branch answers
\* "unknown"; the model branch reports the backend's score (0.0 when it
\* gives none) whatever the label.
C8_ResultInvariantAmended ==
    \A t \in Threads :
        pc[t] = "record" =>
            /\ result[t].calories = Get(FOOD_CALORIES, result[t].food_name)
            /\ (how[t] # "model" /\ result[t].food_name = S_unknown)
                   => result[t].confidence = 0
            /\ how[t] = "model"
                   => result[t].confidence =
                          IF top[t].kind = "noscore" THEN 0 ELSE top[t].score

\* the backend labels an image "UNKNOWN" with score 0.82
C8_Witness ==
    \E t \in Threads :
        /\ how[t] = "model"
        /\ result[t].food_name = S_unknown
        /\ result[t].calories = None
        /\ result[t].confidence = 82

Prefixes(s) == {SubSeq(s, 1, n) : n \in 0..Len(s)}

\* p is the text of label before its first comma (all of it without one)
BeforeFirstComma(p, label) ==
    /\ p \in Prefixes(label)
    /\ \A i \in DOMAIN p : p[i] # ","
    /\ Len(p) < Len(label) => label[Len(p) + 1] = ","

\* k is p in lower case
LowerCaseOf(k, p) ==
    /\ Len(k) = Len(p)
    /\ \A i \in DOMAIN p : k[i] = LowerChar(p[i])

\* C10 as claimed: food_name is the lower-cased, whitespace-trimmed text of
\* the label before its first comma, and calories is looked up under it.
C10_KeyTrimmed ==
    \A t \in Threads :
        how[t] = "model" =>
            \E p \in Prefixes(top[t].label) :
                /\ BeforeFirstComma(p, top[t].label)
                /\ LowerCaseOf(result[t].food_name, Strip(p, Whitespace))
                /\ result[t].calories = Get(FOOD_CALORIES, result[t].food_name)

\* C10 as amended: food_name is the lower-cased text of the label before
\* its first comma, blanks kept, and calories is looked up under it.
C10_KeyUntrimmed ==
    \A t \in Threads :
        how[t] = "model" =>
            \E p \in Prefixes(top[t].label) :
                /\ BeforeFirstComma(p, top[t].label)
                /\ LowerCaseOf(result[t].food_name, p)
                /\ result[t].calories = Get(FOOD_CALORIES, result[t].food_name)

\* the label " pizza, chips" gives the key " pizza", which has no calories
C10_Witness ==
    \E t \in Threads :
        /\ how[t] = "model"
        /\ top[t].label = <<" ","p","i","z","z","a",","," ","c","h","i","p","s">>
        /\ result[t].food_name = <<" ","p","i","z","z","a">>
        /\ result[t].calories = None

\* C9: pipeline(...) returns a handle at most once in the life of the
\* process, however first requests interleave.
C9_ConstructedOnce == ctor_ok <= 1

====
